---------------------------- MODULE Spec2Model ----------------------------
(***************************************************************************)
(* A model of types.Project (src/types/project.go): the immutable project  *)
(* aggregate, its transformations (WithProfiles, WithServicesEnabled,      *)
(* WithServicesDisabled, WithSelectedServices, WithoutUnnecessaryResources,*)
(* WithServicesEnvironmentResolved, WithImagesResolved) and the dependency *)
(* walker ForEachService / withServices.                                   *)
(*                                                                         *)
(* Go maps and the *Project pointer are reference values.  The model keeps *)
(* them in a heap (a sequence of objects addressed by index): a Project    *)
(* struct, the Services and DisabledServices maps, and one DependsOn map   *)
(* per service.  Every transformation runs on that heap, so that a write   *)
(* through an alias of the receiver is a change of the receiver.  Between  *)
(* calls the state holds plain values: the receiver before the call        *)
(* (before), the receiver as it is after the call (recv) and the returned  *)
(* project (res).                                                          *)
(***************************************************************************)
EXTENDS Integers, Sequences, FiniteSets, TLC

VARIABLES
    before,   \* the receiver, as a value, when the call that returned started
    recv,     \* the receiver, as a value, as it is now
    res,      \* the project the call returned, or NoProject (nil or none yet)
    err,      \* the error the last call returned, or NoErr (nil)
    call,     \* the last call: its operation and arguments
    pc,       \* "idle", "walk" and "unwind" (ForEachService is running), "images"
              \* (WithImagesResolved is running), "returned", "walked",
              \* "crashed" (the runtime ended the process)
    depth,    \* number of calls made so far in the chain
    heap,     \* the objects of the call in progress (<<>> when idle)
    np,       \* address of newProject in heap during a multi-step call
    stack,    \* withServices: the active invocations, innermost last
    seen,     \* withServices: the shared seen set
    visits,   \* the sequence of names fn was called with
    img       \* WithImagesResolved: the dispatch loop, its work items and the
              \* references the resolver was called with

vars == <<before, recv, res, err, call, pc, depth, heap, np, stack, seen, visits, img>>

-----------------------------------------------------------------------------
(* Bounds of the exploration *)

\* calls in one chain of transformations
MaxChain == 2
\* length of a names argument
MaxNames == 2
\* length of a profiles argument
MaxProfiles == 2

-----------------------------------------------------------------------------
(* The universe of the fixtures *)

ServiceOrder == <<"A", "B", "C", "D">>
ServiceNames == {ServiceOrder[i] : i \in 1..Len(ServiceOrder)}
\* a name that is never a service of the project
Missing == "Z"
AllNames == ServiceNames \cup {Missing}
Slot(n) == CHOOSE i \in 1..Len(ServiceOrder) : ServiceOrder[i] = n
NSlots == Len(ServiceOrder)

Wildcard == "*"
ProfileNames == {"dev", "test", Wildcard}

NoProject == [nil |-> TRUE]
NoErr == <<>>
NilAddr == 0

includeDependencies == "includeDependencies"
includeDependents == "includeDependents"
ignoreDependencies == "ignoreDependencies"
Policies == {includeDependencies, includeDependents, ignoreDependencies}

VolumeTypeVolume == "volume"

SeqsUpTo(S, n) == UNION {[1..k -> S] : k \in 0..n}
Range(s) == {s[i] : i \in 1..Len(s)}
Perms(S) == {f \in [1..Cardinality(S) -> S] : Range(f) = S}

-----------------------------------------------------------------------------
(* Go maps as functions *)

EmptyMap == <<>>
MapDelete(m, k) == [x \in DOMAIN m \ {k} |-> m[x]]
MapPut(m, k, v) == [x \in DOMAIN m \cup {k} |-> IF x = k THEN v ELSE m[x]]
\* A faulty MapRestrict that keeps every key: the selection property C6 must
\* tell it from MapRestrict.
MapKeep(m, S) == m

MapRestrict(m, S) == [x \in DOMAIN m \cap S |-> m[x]]
\* for k, v := range other { m[k] = v }
MapOverride(m, other) ==
    [x \in DOMAIN m \cup DOMAIN other |-> IF x \in DOMAIN other THEN other[x] ELSE m[x]]

-----------------------------------------------------------------------------
(* The heap: Project structs, Services maps, DependsOn maps *)

\* The objects of a project value v laid out from address base+1 on: the
\* struct, its two Services maps, then one DependsOn map per service slot.
Objects(v, base) ==
    <<[v EXCEPT !.Services = base + 2, !.DisabledServices = base + 3],
      [n \in DOMAIN v.Services |->
          [v.Services[n] EXCEPT !.DependsOn = base + 3 + Slot(n)]],
      [n \in DOMAIN v.DisabledServices |->
          [v.DisabledServices[n] EXCEPT !.DependsOn = base + 3 + NSlots + Slot(n)]]>>
    \o [i \in 1..NSlots |->
          IF ServiceOrder[i] \in DOMAIN v.Services
          THEN v.Services[ServiceOrder[i]].DependsOn ELSE EmptyMap]
    \o [i \in 1..NSlots |->
          IF ServiceOrder[i] \in DOMAIN v.DisabledServices
          THEN v.DisabledServices[ServiceOrder[i]].DependsOn ELSE EmptyMap]

\* A Services map with every DependsOn reference replaced by the map it names.
DerefServices(h, a) ==
    [n \in DOMAIN h[a] |-> [h[a][n] EXCEPT !.DependsOn = h[h[a][n].DependsOn]]]

\* The project at address p as a value.
Deref(h, p) ==
    [h[p] EXCEPT !.Services = DerefServices(h, h[p].Services),
                 !.DisabledServices = DerefServices(h, h[p].DisabledServices)]

\* The heap holding only the project value v, at address 1.
MkHeap(v) == Objects(v, 0)

\* A faulty deepCopy, a copy that shares every map with the original (*p
\* assigned to a new struct): the frame property C1 must tell it from deepCopy.
ShallowCopy(h, p) == [h |-> Append(h, h[p]), a |-> Len(h) + 1]

\* copystructure.Copy(p): a fresh struct with fresh maps holding equal contents.
deepCopy(h, p) == [h |-> h \o Objects(Deref(h, p), Len(h)), a |-> Len(h) + 1]


-----------------------------------------------------------------------------
(* Queries *)

Keys(m) == DOMAIN m

\* p.Services[name] on the heap
ServicesOf(h, p) == h[h[p].Services]
DisabledOf(h, p) == h[h[p].DisabledServices]

\* A faulty AllServices that leaves the disabled services out: the
\* idempotence property C18 must tell it from AllServices.
EnabledServicesOnly(h, p) == ServicesOf(h, p)

\* AllServices: the enabled services, then the disabled ones written over them
AllServices(h, p) == MapOverride(ServicesOf(h, p), DisabledOf(h, p))

\* A faulty HasProfile that looks at the first declared profile only: the
\* partition property C7 must tell it from HasProfile.
HasFirstProfile(s, profiles) ==
    \/ Len(s.Profiles) = 0
    \/ \E i \in 1..Len(profiles) : s.Profiles[1] = profiles[i]

\* ServiceConfig.HasProfile
HasProfile(s, profiles) ==
    \/ Len(s.Profiles) = 0
    \/ \E i \in 1..Len(profiles), j \in 1..Len(s.Profiles) : s.Profiles[j] = profiles[i]

-----------------------------------------------------------------------------
(* WithProfiles *)

\* A call's outcome: the heap after it, the address of the returned project
\* (NilAddr for nil) and the returned error.
Outcome(h, a, e) == [h |-> h, a |-> a, err |-> e]

WithProfilesPartition(h, p, profiles) ==
    LET all == AllServices(h, p)
        enabled == MapRestrict(all, {n \in DOMAIN all : HasProfile(all[n], profiles)})
        disabled == MapRestrict(all, {n \in DOMAIN all : ~HasProfile(all[n], profiles)})
        h1 == h \o <<enabled, disabled>>
    IN  [h1 EXCEPT ![p] = [@ EXCEPT !.Services = Len(h) + 1,
                                    !.DisabledServices = Len(h) + 2,
                                    !.Profiles = profiles]]

WithProfiles(h, p, profiles) ==
    LET c == deepCopy(h, p)
    IN  IF Wildcard \in Range(profiles)
        THEN Outcome(c.h, c.a, NoErr)
        ELSE Outcome(WithProfilesPartition(c.h, c.a, profiles), c.a, NoErr)

-----------------------------------------------------------------------------
(* WithServicesDisabled *)

\* A faulty DisableOne that leaves the service in Services as well: the
\* partition property C2 must tell it from DisableOne.
DisableOneKeep(h, a, name) ==
    LET S == ServicesOf(h, a)
    IN  IF name \in DOMAIN S
        THEN [h EXCEPT ![h[a].DisabledServices] = MapPut(@, name, S[name])]
        ELSE h

\* A faulty DisableOne that moves the service and strips no edge: the
\* disabling property C11 must tell it from DisableOne.
DisableOneMoveOnly(h, a, name) ==
    LET S == ServicesOf(h, a)
    IN  IF name \in DOMAIN S
        THEN [h EXCEPT ![h[a].DisabledServices] = MapPut(@, name, S[name]),
                       ![h[a].Services] = MapDelete(@, name)]
        ELSE h

\* A faulty DisableOne that does nothing at all for a name that is not
\* enabled: the property C12 must tell it from DisableOne.
DisableOneIfEnabled(h, a, name) ==
    LET S == ServicesOf(h, a)
        maps == {S[n].DependsOn : n \in DOMAIN S}
        h1 == [x \in 1..Len(h) |-> IF x \in maps THEN MapDelete(h[x], name) ELSE h[x]] \o <<>>
    IN  IF name \in DOMAIN S
        THEN [h1 EXCEPT ![h[a].DisabledServices] = MapPut(@, name, S[name]),
                        ![h[a].Services] = MapDelete(@, name)]
        ELSE h

\* One round of the loop over names: strip the edges to name from every
\* enabled service, then move name to DisabledServices.
DisableOne(h, a, name) ==
    LET S == ServicesOf(h, a)
        maps == {S[n].DependsOn : n \in DOMAIN S}
        h1 == [x \in 1..Len(h) |-> IF x \in maps THEN MapDelete(h[x], name) ELSE h[x]] \o <<>>
    IN  IF name \in DOMAIN S
        THEN [h1 EXCEPT ![h[a].DisabledServices] = MapPut(@, name, S[name]),
                        ![h[a].Services] = MapDelete(@, name)]
        ELSE h1

RECURSIVE DisableLoop(_, _, _)
DisableLoop(h, a, names) ==
    IF names = <<>> THEN h
    ELSE DisableLoop(DisableOne(h, a, Head(names)), a, Tail(names))

\* WithServicesDisabled returns no error; err is NoErr in its outcome.
WithServicesDisabled(h, p, names) ==
    LET c == deepCopy(h, p)
    IN  IF Len(names) = 0 THEN Outcome(c.h, c.a, NoErr)
        ELSE Outcome(DisableLoop(c.h, c.a, names), c.a, NoErr)

-----------------------------------------------------------------------------
(* The file system and the environment mappings *)

\* A line of an env file: KEY=Lit, or KEY=${Ref} when Ref is not "".
Line(k, lit, ref) == [Key |-> k, Lit |-> lit, Ref |-> ref]

\* The env files that exist, with their lines; any other path does not exist.
Files ==
    ("a.env" :> <<Line("FOO", "2", "")>>) @@
    ("b.env" :> <<Line("FOO", "4", ""), Line("BAR", "", "FOO")>>)

\* os.Stat(path) does not report IsNotExist
FileExists(path) == path \in DOMAIN Files

\* A *string of a MappingWithEquals: <<>> is nil, <<v>> points to v.
NilValue == <<>>
Ptr(v) == <<v>>

\* Mapping.Resolve: the value of s in a Mapping, <<>> when there is none
MappingResolve(m, s) == IF s \in DOMAIN m THEN Ptr(m[s]) ELSE NilValue

\* MappingWithEquals.Resolve: a key without a value takes the looked up one
MappingWithEqualsResolve(m, projectEnv) ==
    [k \in DOMAIN m |->
        IF m[k] = NilValue /\ MappingResolve(projectEnv, k) # NilValue
        THEN MappingResolve(projectEnv, k) ELSE m[k]]

\* the lookup function of WithServicesEnvironmentResolved
resolve(environment, projectEnv, s) ==
    IF s \in DOMAIN environment /\ environment[s] # NilValue
    THEN environment[s]
    ELSE MappingResolve(projectEnv, s)

\* dotenv.ParseWithLookup followed by ToMappingWithEquals: the variables of
\* the lines, in order, a reference expanded by the lookup function and then
\* by the variables of the file read so far.
RECURSIVE ParseWithLookup(_, _, _, _)
ParseWithLookup(lines, out, environment, projectEnv) ==
    IF lines = <<>> THEN out
    ELSE LET e == Head(lines)
             looked == resolve(environment, projectEnv, e.Ref)
             v == IF e.Ref = "" THEN e.Lit
                  ELSE IF looked # NilValue THEN looked[1]
                  ELSE IF e.Ref \in DOMAIN out THEN out[e.Ref][1]
                  ELSE ""
         IN  ParseWithLookup(Tail(lines), MapPut(out, e.Key, Ptr(v)), environment, projectEnv)

\* A faulty LoadEnvFiles that fails on every env file that does not exist:
\* the existence property C17 must tell it from LoadEnvFiles.
RECURSIVE LoadEnvFilesStrict(_, _, _)
LoadEnvFilesStrict(envFiles, environment, projectEnv) ==
    IF envFiles = <<>> THEN [env |-> environment, err |-> NoErr]
    ELSE LET f == Head(envFiles)
         IN  IF ~FileExists(f.Path)
             THEN [env |-> environment, err |-> <<"env file not found", f.Path>>]
             ELSE LoadEnvFilesStrict(Tail(envFiles),
                      MapOverride(environment,
                          ParseWithLookup(Files[f.Path], EmptyMap, environment, projectEnv)),
                      projectEnv)

\* The loop over service.EnvFiles: the accumulated environment, or the error.
RECURSIVE LoadEnvFiles(_, _, _)
LoadEnvFiles(envFiles, environment, projectEnv) ==
    IF envFiles = <<>> THEN [env |-> environment, err |-> NoErr]
    ELSE LET f == Head(envFiles)
         IN  IF ~FileExists(f.Path)
             THEN IF f.Required
                  THEN [env |-> environment, err |-> <<"env file not found", f.Path>>]
                  ELSE LoadEnvFiles(Tail(envFiles), environment, projectEnv)
             ELSE LoadEnvFiles(Tail(envFiles),
                      MapOverride(environment,
                          ParseWithLookup(Files[f.Path], EmptyMap, environment, projectEnv)),
                      projectEnv)

\* A faulty ResolveServiceEnvironment that merges the env files over the
\* service's own environment: the cascade property C16 must tell it from
\* ResolveServiceEnvironment.
ResolveFilesLast(service, projectEnv, discardEnvFiles) ==
    LET own == MappingWithEqualsResolve(service.Environment, projectEnv)
        loaded == LoadEnvFiles(service.EnvFiles, EmptyMap, projectEnv)
    IN  [s |-> [service EXCEPT !.Environment = MapOverride(own, loaded.env),
                               !.EnvFiles = IF discardEnvFiles THEN <<>> ELSE @],
         err |-> loaded.err]

\* One round of the loop over newProject.Services: the service to store back.
ResolveServiceEnvironment(service, projectEnv, discardEnvFiles) ==
    LET own == MappingWithEqualsResolve(service.Environment, projectEnv)
        loaded == LoadEnvFiles(service.EnvFiles, EmptyMap, projectEnv)
    IN  [s |-> [service EXCEPT !.Environment = MapOverride(loaded.env, own),
                               !.EnvFiles = IF discardEnvFiles THEN <<>> ELSE @],
         err |-> loaded.err]

-----------------------------------------------------------------------------
(* WithServicesEnvironmentResolved *)

\* ord is the order in which range yields the keys of newProject.Services.
\* The services before the first failing one are stored back; the others
\* are not reached.
WithServicesEnvironmentResolved(h, p, discardEnvFiles, ord) ==
    LET h0 == Append(h, h[p])           \* the receiver is passed by value
        c == deepCopy(h0, Len(h0))
        S == ServicesOf(c.h, c.a)
        order == SelectSeq(ord, LAMBDA n : n \in DOMAIN S)
        r == [n \in DOMAIN S |->
                 ResolveServiceEnvironment(S[n], c.h[c.a].Environment, discardEnvFiles)]
        failing == {i \in 1..Len(order) : r[order[i]].err # NoErr}
        first == IF failing = {} THEN Len(order) + 1
                 ELSE CHOOSE i \in failing : \A j \in failing : i <= j
        stored == {order[i] : i \in 1..(first - 1)}
        h1 == [c.h EXCEPT ![c.h[c.a].Services] =
                  [n \in DOMAIN S |-> IF n \in stored THEN r[n].s ELSE S[n]]]
    IN  IF failing = {} THEN Outcome(h1, c.a, NoErr)
        ELSE Outcome(h1, NilAddr, r[order[first]].err)

-----------------------------------------------------------------------------
(* WithServicesEnabled *)

\* the loop over names: the profiles of the named services that are disabled
RECURSIVE CollectProfiles(_, _, _, _)
CollectProfiles(names, profiles, enabled, disabled) ==
    IF names = <<>> THEN profiles
    ELSE LET name == Head(names)
         IN  IF name \in DOMAIN enabled
             THEN CollectProfiles(Tail(names), profiles, enabled, disabled)
             ELSE CollectProfiles(Tail(names),
                      profiles \o (IF name \in DOMAIN disabled
                                   THEN disabled[name].Profiles ELSE <<>>),
                      enabled, disabled)

WithServicesEnabled(h, p, names, ord) ==
    LET c == deepCopy(h, p)
        profiles == CollectProfiles(names, h[p].Profiles,
                                    ServicesOf(c.h, c.a), DisabledOf(h, p))
        w == WithProfiles(c.h, c.a, profiles)
    IN  IF Len(names) = 0 THEN Outcome(c.h, c.a, NoErr)
        ELSE WithServicesEnvironmentResolved(w.h, w.a, TRUE, ord)

-----------------------------------------------------------------------------
(* WithoutUnnecessaryResources *)

Sources(refs) == {refs[i].Source : i \in 1..Len(refs)}

requiredNetworks(S) == UNION {S[n].Networks : n \in DOMAIN S}
\* A faulty requiredVolumes that counts the volume entries of every type: the
\* pruning property C13 must tell it from requiredVolumes.
requiredVolumesAnyType(S) ==
    UNION {{S[n].Volumes[i].Source : i \in 1..Len(S[n].Volumes)} : n \in DOMAIN S}

requiredVolumes(S) ==
    UNION {{S[n].Volumes[i].Source : i \in {j \in 1..Len(S[n].Volumes) :
                ~(S[n].Volumes[j].Type # VolumeTypeVolume \/ S[n].Volumes[j].Source = "")}}
           : n \in DOMAIN S}
requiredSecrets(S) ==
    UNION {Sources(S[n].Secrets)
             \cup (IF S[n].Build # <<>> THEN Sources(S[n].Build[1].Secrets) ELSE {})
           : n \in DOMAIN S}
requiredConfigs(S) == UNION {Sources(S[n].Configs) : n \in DOMAIN S}

\* The root collections are modelled by their key sets; the values are the
\* receiver's, looked up in p.
WithoutUnnecessaryResources(h, p) ==
    LET c == deepCopy(h, p)
        S == ServicesOf(c.h, c.a)
    IN  Outcome([c.h EXCEPT ![c.a] =
                    [@ EXCEPT !.Networks = {k \in requiredNetworks(S) : k \in h[p].Networks},
                              !.Volumes = {k \in requiredVolumes(S) : k \in h[p].Volumes},
                              !.Secrets = {k \in requiredSecrets(S) : k \in h[p].Secrets},
                              !.Configs = {k \in requiredConfigs(S) : k \in h[p].Configs}]],
                c.a, NoErr)

-----------------------------------------------------------------------------
(* ForEachService / withServices: helpers *)

\* The walk only reads the project, so these take it as a value v.

\* the policy the options leave in withServicesOptions; none given means
\* IncludeDependencies
PolicyOf(options) ==
    IF Len(options) = 0 THEN includeDependencies ELSE options[Len(options)]

\* dependentsForService(s): the enabled services with a DependsOn entry for s
\* (a service's Name is the key it is stored under)
dependentsForService(v, name) ==
    LET D == {n \in DOMAIN v.Services : name \in DOMAIN v.Services[n].DependsOn}
    IN  [n \in D |-> v.Services[n].DependsOn[name]]

\* the dependencies map the loop body of withServices builds for a service
DependenciesFor(v, policy, name) ==
    IF policy = includeDependents THEN dependentsForService(v, name)
    ELSE IF policy = includeDependencies THEN v.Services[name].DependsOn
    ELSE EmptyMap

\* getServicesByNames: the keys of the services found
FoundServices(v, names) ==
    IF Len(names) = 0 THEN DOMAIN v.Services
    ELSE Range(names) \cap DOMAIN v.Services

\* getServicesByNames: the names not found, in the order of names
servicesNotFound(v, names) ==
    IF Len(names) = 0 THEN <<>>
    ELSE SelectSeq(names, LAMBDA n : n \notin DOMAIN v.Services)

\* A faulty NotFoundError that takes every name not found for an error: the
\* missing-service property C5 must tell it from NotFoundError.
NotFoundErrorStrict(notFound, dependencies) ==
    IF notFound = <<>> THEN NoErr ELSE <<"no such service", notFound[1]>>

\* The error withServices returns before its loop: the first name not found
\* that is no dependency or a required one; NoErr when there is none.
NotFoundError(notFound, dependencies) ==
    LET bad == {i \in 1..Len(notFound) :
                   notFound[i] \notin DOMAIN dependencies
                   \/ dependencies[notFound[i]].Required}
    IN  IF bad = {} THEN NoErr
        ELSE <<"no such service", notFound[CHOOSE i \in bad : \A j \in bad : i <= j]>>

\* an invocation of withServices inside its loop: the keys range has still to
\* yield, and the service whose dependencies a nested invocation is walking
Frame(todo) == [todo |-> todo, cur |-> ""]

-----------------------------------------------------------------------------
(* WithSelectedServices: the loop that disables what was not selected *)

\* order is the order in which range yields the keys of the map at address
\* services (newProject.Services as it was when the loop started); a is
\* newProject, set the names ForEachService visited, enabled the map built so far.
RECURSIVE SelectLoop(_, _, _, _, _, _)
SelectLoop(h, a, services, order, set, enabled) ==
    IF order = <<>>
    THEN Outcome([Append(h, enabled) EXCEPT ![a] = [@ EXCEPT !.Services = Len(h) + 1]],
                 a, NoErr)
    ELSE LET name == Head(order)
             s == h[services][name]
             d == WithServicesDisabled(h, a, <<name>>)
         IN  IF name \in set
             THEN SelectLoop([h EXCEPT ![s.DependsOn] = MapRestrict(@, set)],
                             a, services, Tail(order), set, MapPut(enabled, name, s))
             ELSE SelectLoop(d.h, d.a, services, Tail(order), set, enabled)

-----------------------------------------------------------------------------
(* Fixtures: the projects a chain starts from *)

Dep(required) == [Required |-> required]
Edges(names, required) == [n \in names |-> Dep(required)]

\* A depends on B and C, which both depend on D
Diamond ==
    [n \in ServiceNames |->
        CASE n = "A" -> Edges({"B", "C"}, TRUE)
          [] n = "B" -> Edges({"D"}, TRUE)
          [] n = "C" -> Edges({"D"}, TRUE)
          [] OTHER -> EmptyMap]

\* A -> B -> C -> A, and D depends optionally on A
Cycle ==
    [n \in ServiceNames |->
        CASE n = "A" -> Edges({"B"}, TRUE)
          [] n = "B" -> Edges({"C"}, TRUE)
          [] n = "C" -> Edges({"A"}, TRUE)
          [] OTHER -> Edges({"A"}, FALSE)]

\* B requires a service that does not exist, C refers to it optionally
MissingRequired ==
    [n \in ServiceNames |->
        CASE n = "A" -> Edges({"B"}, TRUE)
          [] n = "B" -> Edges({Missing}, TRUE)
          [] n = "C" -> Edges({Missing}, FALSE)
          [] OTHER -> Edges({"C"}, TRUE)]

\* only optional edges reach the service that does not exist
MissingOptional ==
    [n \in ServiceNames |->
        CASE n = "A" -> Edges({"B"}, TRUE) @@ Edges({Missing}, FALSE)
          [] n = "B" -> EmptyMap
          [] n = "C" -> Edges({"A"}, TRUE)
          [] OTHER -> Edges({"A", Missing}, FALSE)]

Graphs == {Diamond, Cycle, MissingRequired, MissingOptional}

NoProfiles == [n \in ServiceNames |-> <<>>]
SomeProfiles ==
    [n \in ServiceNames |->
        CASE n = "B" -> <<"dev">>
          [] n = "C" -> <<"dev", "test">>
          [] n = "D" -> <<"test">>
          [] OTHER -> <<>>]

\* An image reference string [domain/]path[:tag][@digest] by its parts: path
\* is the sequence of its components, and "" or <<>> a part that is not written.
Image(domain, path, tag, digest) ==
    [Domain |-> domain, Path |-> path, Tag |-> tag, Digest |-> digest]
\* the empty string
NoImage == Image("", <<>>, "", <<>>)

EnvFile(path, required) == [Path |-> path, Required |-> required]

PlainAttrs ==
    [n \in ServiceNames |->
        [Image |-> CASE n = "A" -> Image("", <<"app">>, "", <<>>)
                     [] n = "B" -> Image("", <<"db">>, "", <<"sha256", "d0">>)
                     [] n = "D" -> Image("", <<"web">>, "1", <<>>)
                     [] OTHER -> NoImage,
         EnvFiles |-> <<>>,
         Environment |-> IF n = "A" THEN ("FOO" :> NilValue) ELSE EmptyMap]]

FileAttrs ==
    [n \in ServiceNames |->
        [Image |-> CASE n = "A" -> Image("", <<"app">>, "", <<>>)
                     [] n = "B" -> Image("", <<"db">>, "7", <<"sha256", "d0">>)
                     [] n = "D" -> Image("", <<"Bad Ref">>, "", <<>>)
                     [] OTHER -> NoImage,
         EnvFiles |-> CASE n = "A" -> <<EnvFile("a.env", TRUE), EnvFile("b.env", FALSE)>>
                        [] n = "B" -> <<EnvFile("m.env", FALSE), EnvFile("a.env", TRUE)>>
                        [] n = "C" -> <<EnvFile("a.env", TRUE)>>
                        [] OTHER -> <<EnvFile("m.env", TRUE)>>,
         Environment |-> CASE n = "A" -> ("BAR" :> NilValue)
                           [] n = "B" -> ("FOO" :> Ptr("3"))
                           [] n = "C" -> ("FOO" :> NilValue)
                           [] OTHER -> EmptyMap]]

\* the profiles and the attributes of the services of a fixture
Fixtures == {<<NoProfiles, PlainAttrs>>, <<SomeProfiles, FileAttrs>>}

Ref(source) == [Source |-> source]
Volume(type, source) == [Type |-> type, Source |-> source]

Service(n, graph, profiles, attrs) ==
    [Name |-> n,
     DependsOn |-> graph[n],
     Profiles |-> profiles[n],
     Image |-> attrs[n].Image,
     Environment |-> attrs[n].Environment,
     EnvFiles |-> attrs[n].EnvFiles,
     Networks |-> CASE n = "A" -> {"net1"} [] n = "B" -> {"net1", "netX"}
                    [] n = "C" -> {"net2"} [] OTHER -> {},
     Volumes |-> CASE n = "A" -> <<Volume(VolumeTypeVolume, "vol1"), Volume("bind", "vol2")>>
                   [] n = "B" -> <<Volume(VolumeTypeVolume, "")>>
                   [] n = "C" -> <<Volume(VolumeTypeVolume, "vol2")>>
                   [] OTHER -> <<>>,
     Secrets |-> IF n = "A" THEN <<Ref("sec1")>> ELSE <<>>,
     Build |-> IF n = "B" THEN <<[Secrets |-> <<Ref("sec2"), Ref("secX")>>]>> ELSE <<>>,
     Configs |-> CASE n = "A" -> <<Ref("cfg1")>> [] n = "C" -> <<Ref("cfg2")>>
                   [] OTHER -> <<>>]

\* A loaded project: every service enabled, no profile recorded.
Loaded(graph, profiles, attrs) ==
    [Services |-> [n \in ServiceNames |-> Service(n, graph, profiles, attrs)],
     DisabledServices |-> EmptyMap,
     Profiles |-> <<>>,
     Networks |-> {"net1", "net2", "net3"},
     Volumes |-> {"vol1", "vol2", "vol3"},
     Secrets |-> {"sec1", "sec2", "sec3"},
     Configs |-> {"cfg1", "cfg2", "cfg3"},
     Environment |-> ("FOO" :> "1")]

-----------------------------------------------------------------------------
(* Image references (github.com/distribution/reference, as WithImagesResolved
   uses it) *)

\* the path components the reference grammar accepts, among those of the fixtures
ValidComponents == {"app", "db", "web", "library"}

\* reference.ParseDockerRef: <<>> for a string that is no reference; otherwise
\* the normalized name: the default domain and the library/ prefix are added,
\* a reference with a tag and a digest keeps only the digest, and one with
\* neither gets the tag latest.
ParseDockerRef(image) ==
    IF ~(\A i \in 1..Len(image.Path) : image.Path[i] \in ValidComponents)
    THEN <<>>
    ELSE <<[Domain |-> IF image.Domain = "" THEN "docker.io" ELSE image.Domain,
            Path |-> IF image.Domain = "" /\ Len(image.Path) = 1
                     THEN <<"library">> \o image.Path ELSE image.Path,
            Tag |-> IF image.Digest # <<>> THEN ""
                    ELSE IF image.Tag = "" THEN "latest" ELSE image.Tag,
            Digest |-> image.Digest]>>

\* named.(reference.Canonical)
IsCanonical(named) == named.Digest # <<>>

\* a resolver that is a function of the reference
DigestOf(named) == <<"sha256">> \o named.Path \o <<named.Tag>>

\* reference.WithDigest: the tag, if any, is kept
WithDigest(named, digest) == [named EXCEPT !.Digest = digest]

\* One work item of WithImagesResolved, for the service copied at dispatch;
\* resolved tells whether the resolver, if called, returns a digest.  The
\* image to store, or the error.
ResolveImage(service, resolved) ==
    LET parsed == ParseDockerRef(service.Image)
    IN  IF parsed = <<>>
        THEN [image |-> service.Image, err |-> <<"invalid reference format">>]
        ELSE IF IsCanonical(parsed[1])
        THEN [image |-> parsed[1], err |-> NoErr]
        ELSE IF ~resolved
        THEN [image |-> service.Image, err |-> <<"resolver failed">>]
        ELSE [image |-> WithDigest(parsed[1], DigestOf(parsed[1])), err |-> NoErr]

-----------------------------------------------------------------------------
(* The state machine: chains of calls on a project *)

NameSeqs == SeqsUpTo(AllNames, MaxNames)
ProfileSeqs == SeqsUpTo(ProfileNames, MaxProfiles)
OptionSeqs == SeqsUpTo(Policies, 1)

\* The orders in which range yields the services where only the first service
\* that fails is observed: every service comes first in one of them.
Orders == {[i \in 1..NSlots |-> ServiceOrder[((i + k - 1) % NSlots) + 1]] : k \in 0..(NSlots - 1)}

\* A call: its operation and its arguments; policy is the dependency policy
\* its options select.
Call(op, names, policy, profiles, flag) ==
    [op |-> op, names |-> names, policy |-> policy, profiles |-> profiles, flag |-> flag]

\* The project the next call is made on: the project the last call returned,
\* or its receiver when it returned none.
Cur == IF res # NoProject /\ err = NoErr THEN res ELSE recv

\* the last call returned: before, recv, res and err describe it
Returned == pc = "returned"

\* address of the receiver in the heap of a call
Recv == 1

Init ==
    /\ \E g \in Graphs, f \in Fixtures : recv = Loaded(g, f[1], f[2])
    /\ before = NoProject
    /\ res = NoProject
    /\ err = NoErr
    /\ call = Call("", <<>>, "", <<>>, FALSE)
    /\ pc = "idle"
    /\ depth = 0
    /\ heap = <<>>
    /\ np = NilAddr
    /\ stack = <<>>
    /\ seen = {}
    /\ visits = <<>>
    /\ img = <<>>

\* A transformation returns: the state keeps the values of its receiver and
\* of its result, and the chain is one call longer.
Return(c, h, a, e) ==
    /\ before' = recv
    /\ recv' = Deref(h, Recv)
    /\ res' = IF a = NilAddr THEN NoProject ELSE Deref(h, a)
    /\ err' = e
    /\ call' = c
    /\ pc' = "returned"
    /\ depth' = depth + 1
    /\ stack' = <<>>
    /\ seen' = {}
    /\ visits' = <<>>
    /\ heap' = <<>>
    /\ np' = NilAddr
    /\ img' = <<>>

CanCall == pc = "idle" /\ depth < MaxChain

DoWithProfiles ==
    /\ CanCall
    /\ \E profiles \in ProfileSeqs :
          LET o == WithProfiles(MkHeap(recv), Recv, profiles)
          IN  Return(Call("WithProfiles", <<>>, "", profiles, FALSE), o.h, o.a, o.err)

\* The order of the loop over the services is observed only in the error
\* returned: when no service fails in one order, none fails in any.
DoWithServicesEnabled ==
    /\ CanCall
    /\ \E names \in NameSeqs :
          LET c == Call("WithServicesEnabled", names, "", <<>>, FALSE)
              o == WithServicesEnabled(MkHeap(recv), Recv, names, ServiceOrder)
          IN  IF o.err = NoErr THEN Return(c, o.h, o.a, o.err)
              ELSE \E ord \in Orders :
                      LET f == WithServicesEnabled(MkHeap(recv), Recv, names, ord)
                      IN  Return(c, f.h, f.a, f.err)

DoWithServicesDisabled ==
    /\ CanCall
    /\ \E names \in NameSeqs :
          LET o == WithServicesDisabled(MkHeap(recv), Recv, names)
          IN  Return(Call("WithServicesDisabled", names, "", <<>>, FALSE), o.h, o.a, o.err)

DoWithoutUnnecessaryResources ==
    /\ CanCall
    /\ LET o == WithoutUnnecessaryResources(MkHeap(recv), Recv)
       IN  Return(Call("WithoutUnnecessaryResources", <<>>, "", <<>>, FALSE), o.h, o.a, o.err)

DoWithServicesEnvironmentResolved ==
    /\ CanCall
    /\ \E discardEnvFiles \in BOOLEAN :
          LET c == Call("WithServicesEnvironmentResolved", <<>>, "", <<>>, discardEnvFiles)
              o == WithServicesEnvironmentResolved(MkHeap(recv), Recv, discardEnvFiles,
                                                   ServiceOrder)
          IN  IF o.err = NoErr THEN Return(c, o.h, o.a, o.err)
              ELSE \E ord \in Orders :
                      LET f == WithServicesEnvironmentResolved(MkHeap(recv), Recv,
                                                               discardEnvFiles, ord)
                      IN  Return(c, f.h, f.a, f.err)

\* The caller keeps the project a call returned, or the receiver when the call
\* returned none, and makes its next call on it.
Continue ==
    /\ pc = "returned"
    /\ depth < MaxChain
    /\ before' = NoProject
    /\ recv' = Cur
    /\ res' = NoProject
    /\ err' = NoErr
    /\ call' = Call("", <<>>, "", <<>>, FALSE)
    /\ pc' = "idle"
    /\ img' = <<>>
    /\ UNCHANGED <<depth, heap, np, stack, seen, visits>>

\* WithSelectedServices with no names: the copy is returned.
DoWithSelectedServicesAll ==
    /\ CanCall
    /\ \E options \in OptionSeqs :
          LET d == deepCopy(MkHeap(recv), Recv)
          IN  Return(Call("WithSelectedServices", <<>>, PolicyOf(options), <<>>, FALSE),
                     d.h, d.a, NoErr)

-----------------------------------------------------------------------------
(* ForEachService, step by step                                            *)
(*                                                                         *)
(* ForEachService is called by the user, with a visit function that        *)
(* records the name and returns nil, or by WithSelectedServices, with the  *)
(* function that adds the name to set.  The walk is the same in both       *)
(* cases, and who called is settled when ForEachService returns: visits    *)
(* holds the names in the order fn got them, and set is its range.  The    *)
(* copy WithSelectedServices makes before the walk is made when the walk   *)
(* is over: nothing writes to the receiver or to the copy in between.      *)
(***************************************************************************)

\* ForEachService returns e to the user: the project is what it was, and
\* every chain through this state is a chain from the state before the call.
ForEachServiceReturns(c, e) ==
    /\ before' = recv
    /\ UNCHANGED recv
    /\ res' = NoProject
    /\ err' = e
    /\ call' = c
    /\ pc' = "walked"
    /\ depth' = depth + 1
    /\ stack' = <<>>
    /\ UNCHANGED <<heap, np, img>>

\* ForEachService returns e # nil to WithSelectedServices, which returns nil, e.
SelectFails(c, e) ==
    Return([c EXCEPT !.op = "WithSelectedServices"], MkHeap(recv), NilAddr, e)

\* ForEachService(names, fn, options...): the first invocation of
\* withServices finds every name and enters its loop.
BeginForEachService ==
    /\ CanCall
    /\ \E names \in NameSeqs, options \in OptionSeqs :
          /\ NotFoundError(servicesNotFound(recv, names), EmptyMap) = NoErr
          /\ call' = Call("ForEachService", names, PolicyOf(options), <<>>, FALSE)
          /\ stack' = <<Frame(FoundServices(recv, names))>>
    /\ pc' = "walk"
    /\ UNCHANGED <<before, recv, res, err, depth, heap, np, seen, visits, img>>

\* ForEachService(names, fn, options...): the first invocation of
\* withServices does not find a name and returns the error.
ForEachServiceNotFound ==
    /\ CanCall
    /\ \E names \in NameSeqs, options \in OptionSeqs :
          LET e == NotFoundError(servicesNotFound(recv, names), EmptyMap)
              c == Call("ForEachService", names, PolicyOf(options), <<>>, FALSE)
          IN  /\ e # NoErr
              /\ \/ ForEachServiceReturns(c, e) /\ seen' = {} /\ visits' = <<>>
                 \/ SelectFails(c, e)

\* The orders in which range yields the keys of newProject.Services: the
\* names of set, then the others in every order.  A round for a name of set
\* writes only the DependsOn map of that service in the map the loop ranges
\* over; a round for another name works on a copy and reads neither that
\* service's entry in it nor the rounds before it for names of set, so the
\* place of the names of set in the order is not observed.
SelectOrders(keys, set) ==
    {SelectSeq(ServiceOrder, LAMBDA n : n \in keys \cap set) \o o : o \in Perms(keys \ set)}

Top == stack[Len(stack)]
SetTop(f) == [stack EXCEPT ![Len(stack)] = f]

\* A faulty WalkSkip that calls fn on a name seen already: the visit-once
\* property C3 must tell it from WalkSkip.
WalkRevisit ==
    /\ pc = "walk"
    /\ \E name \in Top.todo :
          /\ name \in seen
          /\ visits' = Append(visits, name)
          /\ stack' = SetTop([Top EXCEPT !.todo = @ \ {name}])
    /\ UNCHANGED <<before, recv, res, err, call, pc, depth, heap, np, seen, img>>

\* range yields a name that was seen already: continue
WalkSkip ==
    /\ pc = "walk"
    /\ \E name \in Top.todo :
          /\ name \in seen
          /\ stack' = SetTop([Top EXCEPT !.todo = @ \ {name}])
    /\ UNCHANGED <<before, recv, res, err, call, pc, depth, heap, np, seen, visits, img>>

\* range yields a new name without dependencies to walk: fn is called on it
WalkVisit ==
    /\ pc = "walk"
    /\ \E name \in Top.todo :
          /\ name \notin seen
          /\ DependenciesFor(recv, call.policy, name) = EmptyMap
          /\ seen' = seen \cup {name}
          /\ visits' = Append(visits, name)
          /\ stack' = SetTop([Top EXCEPT !.todo = @ \ {name}])
    /\ UNCHANGED <<before, recv, res, err, call, pc, depth, heap, np, img>>

\* A faulty WalkDescend that calls fn on the service before it walks its
\* dependencies: the order property C4 must tell it from WalkDescend.
WalkDescendVisitFirst ==
    /\ pc = "walk"
    /\ \E name \in Top.todo :
          LET deps == DependenciesFor(recv, call.policy, name)
          IN  /\ name \notin seen
              /\ deps # EmptyMap
              /\ \E keys \in Perms(DOMAIN deps) :
                    /\ NotFoundError(servicesNotFound(recv, keys), deps) = NoErr
                    /\ stack' = Append(SetTop([todo |-> Top.todo \ {name}, cur |-> name]),
                                       Frame(FoundServices(recv, keys)))
              /\ seen' = seen \cup {name}
              /\ visits' = Append(visits, name)
    /\ UNCHANGED <<before, recv, res, err, call, pc, depth, heap, np, img>>

\* range yields a new name with dependencies: withServices is called on their
\* names, in the order MapKeys gives them, and enters its loop
WalkDescend ==
    /\ pc = "walk"
    /\ \E name \in Top.todo :
          LET deps == DependenciesFor(recv, call.policy, name)
          IN  /\ name \notin seen
              /\ deps # EmptyMap
              /\ \E keys \in Perms(DOMAIN deps) :
                    /\ NotFoundError(servicesNotFound(recv, keys), deps) = NoErr
                    /\ stack' = Append(SetTop([todo |-> Top.todo \ {name}, cur |-> name]),
                                       Frame(FoundServices(recv, keys)))
              /\ seen' = seen \cup {name}
    /\ UNCHANGED <<before, recv, res, err, call, pc, depth, heap, np, visits, img>>

\* as WalkDescend, but a required dependency is not found: the nested
\* invocation returns the error before its loop
WalkFail ==
    /\ pc = "walk"
    /\ \E name \in Top.todo :
          LET deps == DependenciesFor(recv, call.policy, name)
          IN  /\ name \notin seen
              /\ deps # EmptyMap
              /\ \E keys \in Perms(DOMAIN deps) :
                    LET e == NotFoundError(servicesNotFound(recv, keys), deps)
                    IN  /\ e # NoErr
                        /\ err' = e
              /\ seen' = seen \cup {name}
    /\ pc' = "unwind"
    /\ UNCHANGED <<before, recv, res, call, depth, heap, np, stack, visits, img>>

\* fn, called on a new name without dependencies to walk, returns an error
\* (the fn of WithSelectedServices returns none)
WalkVisitFails ==
    /\ pc = "walk"
    /\ \E name \in Top.todo :
          /\ name \notin seen
          /\ DependenciesFor(recv, call.policy, name) = EmptyMap
          /\ seen' = seen \cup {name}
          /\ visits' = Append(visits, name)
          /\ err' = <<"visit failed", name>>
    /\ pc' = "unwind"
    /\ UNCHANGED <<before, recv, res, call, depth, heap, np, stack, img>>

\* the loop of a nested invocation is over: it returns nil, and fn, called
\* on the service whose dependencies were walked, returns an error
WalkReturnFails ==
    /\ pc = "walk"
    /\ Top.todo = {}
    /\ Len(stack) > 1
    /\ visits' = Append(visits, stack[Len(stack) - 1].cur)
    /\ err' = <<"visit failed", stack[Len(stack) - 1].cur>>
    /\ stack' = [SubSeq(stack, 1, Len(stack) - 1) EXCEPT ![Len(stack) - 1].cur = ""]
    /\ pc' = "unwind"
    /\ UNCHANGED <<before, recv, res, call, depth, heap, np, seen, img>>

\* A faulty WalkUnwind that calls fn on the service whose dependencies were
\* walked although the walk of them failed: the abort property C20 must tell
\* it from WalkUnwind.
WalkUnwindVisit ==
    /\ pc = "unwind"
    /\ Len(stack) > 1
    /\ visits' = Append(visits, stack[Len(stack) - 1].cur)
    /\ stack' = SubSeq(stack, 1, Len(stack) - 1)
    /\ UNCHANGED <<before, recv, res, err, call, pc, depth, heap, np, seen, img>>

\* a nested invocation that holds an error returns it to its caller, which
\* holds it in turn
WalkUnwind ==
    /\ pc = "unwind"
    /\ Len(stack) > 1
    /\ stack' = SubSeq(stack, 1, Len(stack) - 1)
    /\ UNCHANGED <<before, recv, res, err, call, pc, depth, heap, np, seen, visits, img>>

\* the first invocation returns the error it holds: ForEachService returns
\* it, to its caller or to WithSelectedServices
ForEachServiceFails ==
    /\ pc = "unwind"
    /\ Len(stack) = 1
    /\ \/ ForEachServiceReturns(call, err) /\ UNCHANGED <<seen, visits>>
       \/ /\ Len(call.names) > 0
          /\ err[1] # "visit failed"
          /\ SelectFails(call, err)

\* the loop of a nested invocation is over: it returns nil and its caller
\* calls fn on the service whose dependencies were walked
WalkReturn ==
    /\ pc = "walk"
    /\ Top.todo = {}
    /\ Len(stack) > 1
    /\ visits' = Append(visits, stack[Len(stack) - 1].cur)
    /\ stack' = [SubSeq(stack, 1, Len(stack) - 1) EXCEPT ![Len(stack) - 1].cur = ""]
    /\ UNCHANGED <<before, recv, res, err, call, pc, depth, heap, np, seen, img>>

\* the loop of the first invocation is over: ForEachService returns nil
ForEachServiceReturn ==
    /\ pc = "walk"
    /\ Top.todo = {}
    /\ Len(stack) = 1
    /\ ForEachServiceReturns(call, NoErr)
    /\ UNCHANGED <<seen, visits>>

\* ForEachService returned nil to WithSelectedServices: set holds the names
\* visited, and the loop over newProject.Services runs in the order ord
SelectDisable ==
    /\ pc = "walk"
    /\ Top.todo = {}
    /\ Len(stack) = 1
    /\ Len(call.names) > 0
    /\ \E ord \in SelectOrders(DOMAIN recv.Services, Range(visits)) :
          LET d == deepCopy(MkHeap(recv), Recv)
              o == SelectLoop(d.h, d.a, d.h[d.a].Services, ord, Range(visits), EmptyMap)
          IN  Return([call EXCEPT !.op = "WithSelectedServices"], o.h, o.a, o.err)

-----------------------------------------------------------------------------
(* WithImagesResolved, step by step: the loop that starts one work item per
   service with an image, the work items, and eg.Wait *)

\* The resolvers: functions of the reference, given by the first path
\* components of the references they return an error for.
Resolvers == {{}, {"app"}}

Resolves(resolver, named) == named.Path[Len(named.Path)] \notin resolver

BeginWithImagesResolved ==
    /\ CanCall
    /\ LET c == deepCopy(MkHeap(recv), Recv)
       IN  /\ heap' = c.h
           /\ np' = c.a
           /\ img' = [todo |-> DOMAIN ServicesOf(c.h, c.a), ranging |-> TRUE,
                      run |-> EmptyMap, wr |-> EmptyMap, err |-> NoErr, calls |-> {}]
    /\ \E resolver \in Resolvers :
          call' = [op |-> "WithImagesResolved", names |-> <<>>, policy |-> "",
                   profiles |-> <<>>, flag |-> FALSE, resolver |-> resolver]
    /\ pc' = "images"
    /\ UNCHANGED <<before, recv, res, err, depth, stack, seen, visits>>

\* range yields a service: without an image, continue; otherwise eg.Go starts
\* a work item that holds idx and a copy of the service
ImagesDispatch ==
    /\ pc = "images"
    /\ \E idx \in img.todo :
          LET service == ServicesOf(heap, np)[idx]
          IN  img' = [img EXCEPT !.todo = @ \ {idx},
                                 !.run = IF service.Image = NoImage THEN @
                                         ELSE MapPut(@, idx, service)]
    /\ UNCHANGED <<before, recv, res, err, call, pc, depth, heap, np, stack, seen, visits>>

\* range finds no further key: the loop is over
ImagesLoopEnd ==
    /\ pc = "images"
    /\ img.todo = {}
    /\ img.ranging
    /\ img' = [img EXCEPT !.ranging = FALSE]
    /\ UNCHANGED <<before, recv, res, err, call, pc, depth, heap, np, stack, seen, visits>>

\* a work item parses and resolves its image: it is then about to store the
\* service with the resolved image, or it returns an error, which the group
\* keeps if it is the first
ImagesWork ==
    /\ pc = "images"
    /\ \E idx \in DOMAIN img.run :
          LET service == img.run[idx]
              parsed == ParseDockerRef(service.Image)
              asks == parsed # <<>> /\ ~IsCanonical(parsed[1])
              r == ResolveImage(service, asks /\ Resolves(call.resolver, parsed[1]))
          IN  img' = [img EXCEPT !.run = MapDelete(@, idx),
                                 !.wr = IF r.err # NoErr THEN @
                                        ELSE MapPut(@, idx, [service EXCEPT !.Image = r.image]),
                                 !.err = IF @ = NoErr THEN r.err ELSE @,
                                 !.calls = IF asks THEN @ \cup {parsed[1]} ELSE @]
    /\ UNCHANGED <<before, recv, res, err, call, pc, depth, heap, np, stack, seen, visits>>

\* a work item stores its service: newProject.Services[idx] = service
ImagesWrite ==
    /\ pc = "images"
    /\ \E idx \in DOMAIN img.wr :
          /\ heap' = [heap EXCEPT ![heap[np].Services] = MapPut(@, idx, img.wr[idx])]
          /\ img' = [img EXCEPT !.wr = MapDelete(@, idx)]
    /\ UNCHANGED <<before, recv, res, err, call, pc, depth, np, stack, seen, visits>>

\* A work item's store into newProject.Services is not ordered with the
\* stores of the other work items nor with the range loop over the same map.
Racing ==
    /\ pc = "images"
    /\ \E idx \in DOMAIN img.wr : img.ranging \/ DOMAIN img.wr # {idx}

\* The map accesses that race are undefined: the runtime may, instead of
\* performing them, end the process ("fatal error: concurrent map writes",
\* "concurrent map iteration and map write"), and no call returns.
ImagesCrash ==
    /\ Racing
    /\ pc' = "crashed"
    /\ before' = recv
    /\ res' = NoProject
    /\ err' = <<"fatal error", "concurrent map access">>
    /\ depth' = depth + 1
    /\ heap' = <<>>
    /\ np' = NilAddr
    /\ img' = <<>>
    /\ UNCHANGED <<recv, call, stack, seen, visits>>

\* the loop is over and every work item is: newProject and the first error
\* are returned
ImagesWait ==
    /\ pc = "images"
    /\ ~img.ranging
    /\ img.run = EmptyMap
    /\ img.wr = EmptyMap
    /\ before' = recv
    /\ recv' = Deref(heap, Recv)
    /\ res' = Deref(heap, np)
    /\ err' = img.err
    /\ pc' = "returned"
    /\ depth' = depth + 1
    /\ heap' = <<>>
    /\ np' = NilAddr
    /\ UNCHANGED <<call, img, stack, seen, visits>>

Next ==
    \/ Continue
    \/ DoWithProfiles
    \/ DoWithServicesEnabled
    \/ DoWithServicesDisabled
    \/ DoWithoutUnnecessaryResources
    \/ DoWithServicesEnvironmentResolved
    \/ DoWithSelectedServicesAll
    \/ BeginForEachService
    \/ ForEachServiceNotFound
    \/ WalkSkip
    \/ WalkVisit
    \/ WalkDescend
    \/ WalkFail
    \/ WalkVisitFails
    \/ WalkReturnFails
    \/ WalkUnwind
    \/ ForEachServiceFails
    \/ WalkReturn
    \/ ForEachServiceReturn
    \/ SelectDisable
    \/ BeginWithImagesResolved
    \/ ImagesDispatch
    \/ ImagesLoopEnd
    \/ ImagesWork
    \/ ImagesWrite
    \/ ImagesCrash
    \/ ImagesWait

Spec == Init /\ [][Next]_vars

-----------------------------------------------------------------------------
(* Properties *)

Transformations ==
    {"WithProfiles", "WithServicesEnabled", "WithServicesDisabled",
     "WithSelectedServices", "WithoutUnnecessaryResources",
     "WithServicesEnvironmentResolved", "WithImagesResolved"}

Enabled(v) == DOMAIN v.Services
Disabled(v) == DOMAIN v.DisabledServices

\* C1: when a transformation has returned, with a project or with an error,
\* the receiver equals the value it had before the call, in every field of
\* the project and of its services; this holds at every position of a chain.
C1_ReceiverUnchanged ==
    Returned => call.op \in Transformations /\ recv = before

\* the second call of a chain has returned a project that differs from its
\* receiver in its services' DependsOn
C1_Witness ==
    /\ Returned
    /\ depth = MaxChain
    /\ call.op = "WithSelectedServices"
    /\ err = NoErr
    /\ \E n \in Enabled(res) \cap Enabled(before) :
          res.Services[n].DependsOn # before.Services[n].DependsOn

\* C2: a WithProfiles, WithServicesEnabled, WithServicesDisabled or
\* WithSelectedServices call on a project whose Services and DisabledServices
\* share no key returns a project whose Services and DisabledServices share
\* no key and hold together the keys they held together in the receiver; so
\* does every sequence of such calls.
C2_PartitionStable ==
    /\ Returned
    /\ call.op \in {"WithProfiles", "WithServicesEnabled", "WithServicesDisabled",
                    "WithSelectedServices"}
    /\ res # NoProject
    /\ Enabled(before) \cap Disabled(before) = {}
    => /\ Enabled(res) \cap Disabled(res) = {}
       /\ Enabled(res) \cup Disabled(res) = Enabled(before) \cup Disabled(before)

\* a call of a chain moved services between two non-empty key sets
C2_Witness ==
    /\ Returned
    /\ depth = MaxChain
    /\ call.op = "WithServicesDisabled"
    /\ Disabled(before) # {}
    /\ Disabled(res) \ Disabled(before) # {}
    /\ Enabled(res) # {}

\* The services a walk goes to from service n of project v: the enabled
\* services n depends on, or the enabled services that depend on n.
Targets(v, policy, n) ==
    IF policy = includeDependencies
    THEN DOMAIN v.Services[n].DependsOn \cap Enabled(v)
    ELSE IF policy = includeDependents
    THEN {m \in Enabled(v) : n \in DOMAIN v.Services[m].DependsOn}
    ELSE {}

RECURSIVE Reach(_, _, _)
Reach(v, policy, S) ==
    LET T == S \cup UNION {Targets(v, policy, n) : n \in S}
    IN  IF T = S THEN S ELSE Reach(v, policy, T)

\* The closure of names under the policy: the enabled services among names
\* (all of them for no names) and what Targets reaches from them.
Closure(v, names, policy) ==
    Reach(v, policy, IF Len(names) = 0 THEN Enabled(v) ELSE Range(names) \cap Enabled(v))

\* no enabled service reaches itself along DependsOn edges
Acyclic(v) ==
    \A n \in Enabled(v) :
        n \notin Reach(v, includeDependencies, Targets(v, includeDependencies, n))

NoDuplicates(q) == \A i, j \in 1..Len(q) : q[i] = q[j] => i = j

RECURSIVE Pending(_)
Pending(st) ==
    IF st = <<>> THEN 0 ELSE Cardinality(Head(st).todo) + 1 + Pending(Tail(st))

\* What a walk has left to do at most: every service not seen yet may open
\* an invocation over all services; every open invocation has its keys to
\* yield and its return.
Measure == (NSlots + 2) * Cardinality(Enabled(recv) \ seen) + Pending(stack)

\* C3: every step of a walk in which fn does not fail takes the walk
\* strictly closer to its end, whatever cycles DependsOn has, so that
\* ForEachService terminates; and when it returns nil it has called fn exactly
\* once on each enabled service of the closure of names under the policy, and
\* on no other service.
C3_VisitOnce ==
    [][/\ pc = "walk" /\ pc' = "walk" => Measure' < Measure
       /\ pc = "walk" /\ pc' = "walked" /\ err' = NoErr
          => /\ NoDuplicates(visits')
             /\ Range(visits') = Closure(recv, call.names, call.policy)]_vars

\* a walk from a name given twice through a cycle of three services has
\* returned nil
C3_Witness ==
    /\ pc = "walked"
    /\ err = NoErr
    /\ ~Acyclic(recv)
    /\ call.policy = includeDependencies
    /\ Len(call.names) = 2
    /\ call.names[1] = call.names[2]
    /\ Len(visits) = 3

\* C4: in a project whose DependsOn graph is acyclic, fn is called on a
\* service only after it was called on every enabled service it depends on
\* (IncludeDependencies) or on every enabled service that depends on it
\* (IncludeDependents), at every point of the walk and in every iteration
\* order of the maps.
C4_VisitOrder ==
    Acyclic(recv) /\ pc \in {"walk", "walked"}
    => \A i \in 1..Len(visits) :
          \A d \in Targets(recv, call.policy, visits[i]) :
             \E j \in 1..(i - 1) : visits[j] = d

\* the diamond walked from A: D first, A last
C4_Witness ==
    /\ pc = "walked"
    /\ err = NoErr
    /\ Acyclic(recv)
    /\ call.policy = includeDependencies
    /\ call.names = <<"A">>
    /\ Len(visits) = 4
    /\ visits[1] = "D"
    /\ visits[2] = "C"
    /\ visits[4] = "A"

\* a name of the call that is no enabled service of the receiver
NameMissing == \E i \in 1..Len(call.names) : call.names[i] \notin Enabled(recv)

\* a service of the closure has a required DependsOn edge to a service that
\* is not enabled
RequiredMissing ==
    \E n \in Closure(recv, call.names, call.policy) :
       \E d \in DOMAIN recv.Services[n].DependsOn \ Enabled(recv) :
          recv.Services[n].DependsOn[d].Required

NoSuchService == err # NoErr /\ err[1] = "no such service"

\* fn returned an error
VisitFailed == err # NoErr /\ err[1] = "visit failed"

\* the walk called fn on the whole closure and ForEachService returned nil
WalkedClosure ==
    err = NoErr /\ Range(visits) = Closure(recv, call.names, call.policy)

\* C5 as stated: ForEachService fails with "no such service" when a name is
\* missing or when a traversed service has a required DependsOn edge to a
\* missing service, under whatever policy; otherwise it returns nil, having
\* skipped the missing services that only optional edges lead to.
C5_AsStated ==
    pc = "walked" /\ ~VisitFailed
    => /\ NameMissing \/ RequiredMissing => NoSuchService
       /\ ~NameMissing /\ ~RequiredMissing => WalkedClosure

\* C5, amended: ForEachService fails with "no such service" when a name is
\* missing, or when under IncludeDependencies a traversed service has a
\* required DependsOn edge to a missing service; otherwise, and so under
\* IncludeDependents and IgnoreDependencies whatever the edges, it returns nil,
\* having called fn on the closure and skipped the missing services.
C5_MissingServices ==
    pc = "walked" /\ ~VisitFailed
    => LET fails == \/ NameMissing
                    \/ call.policy = includeDependencies /\ RequiredMissing
       IN  /\ fails => NoSuchService
           /\ ~fails => WalkedClosure

\* a walk along dependencies went past optional edges to the service that
\* does not exist and returned nil
C5_Witness ==
    /\ pc = "walked"
    /\ err = NoErr
    /\ call.policy = includeDependencies
    /\ Len(visits) > 1
    /\ \E n \in Range(visits) : Missing \in DOMAIN recv.Services[n].DependsOn

\* C6: a successful WithSelectedServices(names, options) with names returns
\* a project whose Services are the closure of names under the policy; the
\* other services that were enabled are in its DisabledServices; each of its
\* Services has the DependsOn it had in the receiver restricted to the
\* closure, hence no edge to a service that is not enabled.  Without names
\* the result equals the receiver.
C6_Selected ==
    Returned /\ call.op = "WithSelectedServices" /\ err = NoErr
    => IF Len(call.names) = 0 THEN res = before
       ELSE LET closure == Closure(before, call.names, call.policy)
            IN  /\ Enabled(res) = closure
                /\ Enabled(before) \ closure \subseteq Disabled(res)
                /\ \A n \in closure :
                      /\ DOMAIN res.Services[n].DependsOn =
                            DOMAIN before.Services[n].DependsOn \cap closure
                      /\ \A d \in DOMAIN res.Services[n].DependsOn :
                            res.Services[n].DependsOn[d] = before.Services[n].DependsOn[d]
                      /\ DOMAIN res.Services[n].DependsOn \subseteq Enabled(res)

\* a selection that ignores dependencies cut an edge of a selected service
\* and disabled a service
C6_Witness ==
    /\ Returned
    /\ call.op = "WithSelectedServices"
    /\ err = NoErr
    /\ call.policy = ignoreDependencies
    /\ Enabled(before) \ Enabled(res) # {}
    /\ \E n \in Enabled(res) :
          DOMAIN res.Services[n].DependsOn # DOMAIN before.Services[n].DependsOn

\* every service of v, enabled or disabled
All(v) == MapOverride(v.Services, v.DisabledServices)

\* the service declares no profile or one of the profiles P
Matches(s, P) == Len(s.Profiles) = 0 \/ Range(s.Profiles) \cap Range(P) # {}

\* C7: WithProfiles(P) with no "*" in P returns a project in which a service
\* of the receiver, enabled or disabled there, is in Services if it declares
\* no profile or a profile of P and in DisabledServices otherwise, whose
\* Profiles are P, and in which every service has the DependsOn it had.
C7_ProfilesPartition ==
    Returned /\ call.op = "WithProfiles" /\ Wildcard \notin Range(call.profiles)
    => /\ err = NoErr
       /\ Enabled(res) = {n \in DOMAIN All(before) : Matches(All(before)[n], call.profiles)}
       /\ Disabled(res) = {n \in DOMAIN All(before) : ~Matches(All(before)[n], call.profiles)}
       /\ res.Profiles = call.profiles
       /\ \A n \in DOMAIN All(before) : All(res)[n].DependsOn = All(before)[n].DependsOn

\* WithProfiles enabled a service that an earlier call had disabled and
\* that declares two profiles, the second of which was asked for, and
\* disabled another
C7_Witness ==
    /\ Returned
    /\ call.op = "WithProfiles"
    /\ Wildcard \notin Range(call.profiles)
    /\ \E n \in Disabled(before) \cap Enabled(res) :
          /\ Len(before.DisabledServices[n].Profiles) = 2
          /\ before.DisabledServices[n].Profiles[1] \notin Range(call.profiles)
    /\ Enabled(before) \cap Disabled(res) # {}

\* C8 as stated: WithProfiles(P) with "*" in P returns a project whose
\* Services hold every service of the receiver, those of its
\* DisabledServices too, and whose DisabledServices are empty.
C8_AsStated ==
    Returned /\ call.op = "WithProfiles" /\ Wildcard \in Range(call.profiles)
    => /\ err = NoErr
       /\ Enabled(res) = DOMAIN All(before)
       /\ Disabled(res) = {}

\* C9 as stated: a successful WithServicesEnabled(names) returns a project
\* whose Services hold every name of names that is a service of the
\* receiver, enabled or disabled.
C9_AsStated ==
    Returned /\ call.op = "WithServicesEnabled" /\ err = NoErr
    => Range(call.names) \cap DOMAIN All(before) \subseteq Enabled(res)

\* C10 as stated: WithServicesEnabled(names) with names not empty and every
\* name enabled in the receiver returns a project with the Services keys and
\* the DisabledServices keys of the receiver.
C10_AsStated ==
    /\ Returned
    /\ call.op = "WithServicesEnabled"
    /\ err = NoErr
    /\ Len(call.names) > 0
    /\ Range(call.names) \subseteq Enabled(before)
    => /\ Enabled(res) = Enabled(before)
       /\ Disabled(res) = Disabled(before)

\* the map m without the keys of S
Without(m, S) == [k \in DOMAIN m \ S |-> m[k]]

\* C11: WithServicesDisabled(names) returns a project in which no name of
\* names is in Services, every name of names that was enabled is in
\* DisabledServices, every service that was disabled is still disabled, and
\* every service left in Services has the DependsOn it had without the
\* edges to names: no edge to a name of names, every other edge kept.
C11_Disabled ==
    Returned /\ call.op = "WithServicesDisabled"
    => /\ err = NoErr
       /\ Range(call.names) \cap Enabled(res) = {}
       /\ Range(call.names) \cap Enabled(before) \subseteq Disabled(res)
       /\ Disabled(before) \subseteq Disabled(res)
       /\ Enabled(res) = Enabled(before) \ Range(call.names)
       /\ \A n \in Enabled(res) :
             res.Services[n].DependsOn =
                Without(before.Services[n].DependsOn, Range(call.names))

\* two enabled services were disabled; a service left enabled lost an edge
\* and kept another
C11_Witness ==
    /\ Returned
    /\ call.op = "WithServicesDisabled"
    /\ Cardinality(Range(call.names) \cap Enabled(before)) = 2
    /\ \E n \in Enabled(res) :
          /\ DOMAIN res.Services[n].DependsOn # {}
          /\ DOMAIN res.Services[n].DependsOn # DOMAIN before.Services[n].DependsOn

\* no name of the call is an enabled service of the receiver
NoneEnabled ==
    /\ Returned
    /\ call.op = "WithServicesDisabled"
    /\ Range(call.names) \cap Enabled(before) = {}

\* C12 as stated: WithServicesDisabled(names) with no name of names enabled
\* in the receiver returns a project equal to the receiver, the DependsOn
\* of every enabled service included.
C12_AsStated == NoneEnabled => res = before

\* C12, amended: WithServicesDisabled(names) with no name of names enabled
\* in the receiver returns a project that equals the receiver but for the
\* DependsOn of its enabled services, which lose their edges to the names of
\* names; Services and DisabledServices have the keys they had, and the
\* disabled services are unchanged.
C12_NoMatch ==
    NoneEnabled
    => res = [before EXCEPT !.Services =
                 [n \in Enabled(before) |->
                     [before.Services[n] EXCEPT !.DependsOn =
                         Without(@, Range(call.names))]]]

\* disabling a name that is no enabled service cut an edge of an enabled
\* service
C12_Witness ==
    /\ NoneEnabled
    /\ Len(call.names) > 0
    /\ \E n \in Enabled(res) :
          DOMAIN res.Services[n].DependsOn # DOMAIN before.Services[n].DependsOn

\* an enabled service of v refers to the network, volume, secret, config k
RefersToNetwork(v, k) == \E n \in Enabled(v) : k \in v.Services[n].Networks
RefersToVolume(v, k) ==
    \E n \in Enabled(v) : \E i \in 1..Len(v.Services[n].Volumes) :
       /\ v.Services[n].Volumes[i].Type = VolumeTypeVolume
       /\ v.Services[n].Volumes[i].Source # ""
       /\ v.Services[n].Volumes[i].Source = k
RefersToSecret(v, k) ==
    \E n \in Enabled(v) :
       \/ \E i \in 1..Len(v.Services[n].Secrets) : v.Services[n].Secrets[i].Source = k
       \/ /\ v.Services[n].Build # <<>>
          /\ \E i \in 1..Len(v.Services[n].Build[1].Secrets) :
                v.Services[n].Build[1].Secrets[i].Source = k
RefersToConfig(v, k) ==
    \E n \in Enabled(v) : \E i \in 1..Len(v.Services[n].Configs) :
       v.Services[n].Configs[i].Source = k

\* C13: WithoutUnnecessaryResources returns a project whose Networks,
\* Volumes, Secrets and Configs hold exactly the keys of the receiver's that
\* an enabled service refers to (a volume only by an entry of type volume
\* with a source); a reference by a disabled service or to a key the
\* receiver does not hold adds nothing and is no error; Services and
\* DisabledServices are the receiver's.
C13_Pruned ==
    Returned /\ call.op = "WithoutUnnecessaryResources"
    => /\ err = NoErr
       /\ res.Networks = {k \in before.Networks : RefersToNetwork(before, k)}
       /\ res.Volumes = {k \in before.Volumes : RefersToVolume(before, k)}
       /\ res.Secrets = {k \in before.Secrets : RefersToSecret(before, k)}
       /\ res.Configs = {k \in before.Configs : RefersToConfig(before, k)}
       /\ res.Services = before.Services
       /\ res.DisabledServices = before.DisabledServices

\* a volume that a disabled service mounts by name and an enabled one binds
\* was dropped, and so was a network only a disabled service refers to, while
\* an enabled service refers to a network and a secret the project lacks
C13_Witness ==
    /\ Returned
    /\ call.op = "WithoutUnnecessaryResources"
    /\ "vol2" \in before.Volumes \ res.Volumes
    /\ \E n \in Enabled(before) : \E i \in 1..Len(before.Services[n].Volumes) :
          before.Services[n].Volumes[i].Source = "vol2"
    /\ \E n \in Disabled(before) : \E k \in before.Networks \ res.Networks :
          k \in before.DisabledServices[n].Networks
    /\ \E n \in Enabled(before) : before.Services[n].Networks \ before.Networks # {}

ImagesCall == call.op = "WithImagesResolved"

\* C14 as stated: when WithImagesResolved returns an error, every work item
\* that was started has finished, and no project is returned, so that no
\* image a work item rewrote is visible to the caller.
C14_AsStated ==
    Returned /\ ImagesCall /\ err # NoErr
    => /\ img.run = EmptyMap /\ img.wr = EmptyMap
       /\ res = NoProject

\* the image of a service after WithImagesResolved with a resolver that
\* returns DigestOf for every reference
Resolved(image) ==
    LET parsed == ParseDockerRef(image)
    IN  IF image = NoImage \/ parsed = <<>> THEN image
        ELSE IF parsed[1].Digest # <<>> THEN parsed[1]
        ELSE [parsed[1] EXCEPT !.Digest = DigestOf(parsed[1])]

\* the references of the enabled services of v that carry no digest
Undigested(v) ==
    {ParseDockerRef(v.Services[n].Image)[1] :
        n \in {m \in Enabled(v) :
                 /\ v.Services[m].Image # NoImage
                 /\ ParseDockerRef(v.Services[m].Image) # <<>>
                 /\ v.Services[m].Image.Digest = <<>>}}

\* Whenever WithImagesResolved returns, with a resolver that never fails,
\* the project it returns is the receiver with the image of every enabled
\* service resolved, and the resolver was called with the references that
\* carry no digest and no other.
ImagesResult ==
    /\ res.Services = [n \in Enabled(before) |->
                          [before.Services[n] EXCEPT !.Image = Resolved(@)]]
    /\ res.DisabledServices = before.DisabledServices
    /\ img.calls = Undigested(before)

\* C15 as stated: with a resolver that is a function of the reference and
\* never fails, every interleaving of the work items of WithImagesResolved
\* ends with the same result: each enabled service that has an image without
\* a digest has the reference with the digest the resolver gives for it, and
\* the resolver was called for these services only.
C15_AsStated ==
    ImagesCall /\ call.resolver = {} /\ pc \in {"returned", "crashed"}
    => pc = "returned" /\ ImagesResult

EnvCall == Returned /\ call.op = "WithServicesEnvironmentResolved"

\* the env files of service s that exist, in the order of s.EnvFiles
Existing(s) == SelectSeq(s.EnvFiles, LAMBDA f : FileExists(f.Path))

\* the file at path has a line for k; the last such line
Defines(path, k) == \E i \in 1..Len(Files[path]) : Files[path][i].Key = k
LastLine(path, k) ==
    LET I == {i \in 1..Len(Files[path]) : Files[path][i].Key = k}
    IN  Files[path][CHOOSE i \in I : \A j \in I : j <= i]

\* the files among the first j of fs that define k
Defining(fs, j, k) == {i \in 1..j : Defines(fs[i].Path, k)}

\* The value the j-th file of fs gives k: the literal of its last line for
\* k, or what the variable that line refers to has at that point: its value
\* from the last earlier file that defines it, else the project's, else the
\* file's own, else the empty string.
RECURSIVE FileValue(_, _, _, _)
FileValue(fs, j, k, projectEnv) ==
    LET line == LastLine(fs[j].Path, k)
        earlier == Defining(fs, j - 1, line.Ref)
    IN  IF line.Ref = "" THEN line.Lit
        ELSE IF earlier # {}
        THEN FileValue(fs, CHOOSE i \in earlier : \A x \in earlier : x <= i, line.Ref,
                       projectEnv)
        ELSE IF line.Ref \in DOMAIN projectEnv THEN projectEnv[line.Ref]
        ELSE IF Defines(fs[j].Path, line.Ref) /\ LastLine(fs[j].Path, line.Ref).Ref = ""
        THEN LastLine(fs[j].Path, line.Ref).Lit
        ELSE ""

\* the value of k from the last existing env file of s that defines k
LastFileValue(s, k, projectEnv) ==
    LET fs == Existing(s)
        I == Defining(fs, Len(fs), k)
    IN  Ptr(FileValue(fs, CHOOSE i \in I : \A x \in I : x <= i, k, projectEnv))

EnvKeys == {"FOO", "BAR"}

\* some existing env file of s defines k
InFiles(s, k) == Defining(Existing(s), Len(Existing(s)), k) # {}

\* C16 as stated: after WithServicesEnvironmentResolved, for every enabled
\* service and key k: the value the service's own Environment gives k if it
\* gives one; otherwise the value from the last existing env file that
\* defines k; a project-level value never comes before either.
C16_AsStated ==
    EnvCall /\ err = NoErr
    => \A n \in Enabled(before) : \A k \in EnvKeys :
          LET s == before.Services[n]
              e == res.Services[n].Environment
          IN  IF k \in DOMAIN s.Environment /\ s.Environment[k] # NilValue
              THEN k \in DOMAIN e /\ e[k] = s.Environment[k]
              ELSE InFiles(s, k)
                   => k \in DOMAIN e /\ e[k] = LastFileValue(s, k, before.Environment)

\* C16, amended: after WithServicesEnvironmentResolved, for every enabled
\* service and key k: if the service's own Environment lists k, the value
\* it gives k, or for a k listed without a value the project-level value of
\* k, or no value when the project has none, whatever the env files define;
\* if it does not list k, the value from the last existing env file that
\* defines k, before any project-level value; and no other key is set.
C16_Cascade ==
    EnvCall /\ err = NoErr
    => \A n \in Enabled(before) : \A k \in EnvKeys :
          LET s == before.Services[n]
              e == res.Services[n].Environment
          IN  IF k \in DOMAIN s.Environment
              THEN /\ k \in DOMAIN e
                   /\ e[k] = IF s.Environment[k] # NilValue THEN s.Environment[k]
                             ELSE IF k \in DOMAIN before.Environment
                             THEN Ptr(before.Environment[k])
                             ELSE NilValue
              ELSE IF InFiles(s, k)
              THEN k \in DOMAIN e /\ e[k] = LastFileValue(s, k, before.Environment)
              ELSE k \notin DOMAIN e

\* one service took a value of its own over a file's, another a value of
\* its second file over that of the first and the project's, and a third
\* the project's value for a key it lists without a value
C16_Witness ==
    /\ EnvCall
    /\ err = NoErr
    /\ \E n \in Enabled(res) :
          /\ InFiles(before.Services[n], "FOO")
          /\ "FOO" \in DOMAIN before.Services[n].Environment
          /\ res.Services[n].Environment["FOO"] = Ptr("3")
    /\ \E n \in Enabled(res) :
          /\ Len(Existing(before.Services[n])) = 2
          /\ DOMAIN res.Services[n].Environment = EnvKeys
          /\ res.Services[n].Environment["FOO"] = Ptr("4")
          /\ res.Services[n].Environment["BAR"] = NilValue
    /\ \E n \in Enabled(res) :
          /\ InFiles(before.Services[n], "FOO")
          /\ "FOO" \in DOMAIN before.Services[n].Environment
          /\ before.Services[n].Environment["FOO"] = NilValue
          /\ res.Services[n].Environment["FOO"] = Ptr("1")

\* service s lists a required env file that does not exist
RequiredFileMissing(s) ==
    \E i \in 1..Len(s.EnvFiles) : s.EnvFiles[i].Required /\ ~FileExists(s.EnvFiles[i].Path)

\* C17: WithServicesEnvironmentResolved(discardEnvFiles) returns an error,
\* "env file not found", and no project if and only if an enabled service
\* lists a required env file that does not exist.  Otherwise an env file
\* that does not exist gives no variable: the keys of a service's
\* Environment are those it listed and those its existing env files define;
\* and every enabled service has no EnvFiles if discardEnvFiles is set, and
\* the EnvFiles it had if not.
C17_EnvFiles ==
    EnvCall
    => IF \E n \in Enabled(before) : RequiredFileMissing(before.Services[n])
       THEN err # NoErr /\ err[1] = "env file not found" /\ res = NoProject
       ELSE /\ err = NoErr
            /\ \A n \in Enabled(before) :
                  LET s == before.Services[n]
                  IN  /\ res.Services[n].EnvFiles =
                            IF call.flag THEN <<>> ELSE s.EnvFiles
                      /\ DOMAIN res.Services[n].Environment =
                            DOMAIN s.Environment \cup {k \in EnvKeys : InFiles(s, k)}

\* a call that discards the env files went past an optional env file that
\* does not exist, while a disabled service lists a required one
C17_Witness ==
    /\ EnvCall
    /\ err = NoErr
    /\ call.flag
    /\ \E n \in Enabled(before) :
          /\ Len(Existing(before.Services[n])) < Len(before.Services[n].EnvFiles)
          /\ Len(Existing(before.Services[n])) = 1
          /\ res.Services[n].EnvFiles = <<>>
    /\ \E n \in Disabled(before) : RequiredFileMissing(before.DisabledServices[n])

\* the project WithProfiles(profiles) returns for the project value v
Again(v, profiles) ==
    LET o == WithProfiles(MkHeap(v), Recv, profiles)
    IN  Deref(o.h, o.a)

\* C18: WithProfiles(P) called on the project that WithProfiles(P) returned
\* returns a project with the same Services keys, DisabledServices keys and
\* Profiles.
C18_Idempotent ==
    Returned /\ call.op = "WithProfiles"
    => LET again == Again(res, call.profiles)
       IN  /\ Enabled(again) = Enabled(res)
           /\ Disabled(again) = Disabled(res)
           /\ again.Profiles = res.Profiles

\* WithProfiles(P) with two profiles moved a service each way
C18_Witness ==
    /\ Returned
    /\ call.op = "WithProfiles"
    /\ Len(call.profiles) = 2
    /\ Wildcard \notin Range(call.profiles)
    /\ Enabled(res) \ Enabled(before) # {}
    /\ Disabled(res) \ Disabled(before) # {}

\* the project WithSelectedServices returns for the project value v and the
\* set of names visited, when range yields the services in the order ord
SelectedIn(v, set, ord) ==
    LET d == deepCopy(MkHeap(v), Recv)
        o == SelectLoop(d.h, d.a, d.h[d.a].Services, ord, set, EmptyMap)
    IN  Deref(o.h, o.a)

\* C19 as stated: WithSelectedServices returns the same project for the same
\* receiver, names and policy whatever the order in which the services are
\* iterated: the project it returns is the one it returns when they are
\* iterated in the order A, B, C, D, the DependsOn of every disabled service
\* included.
C19_AsStated ==
    /\ Returned
    /\ call.op = "WithSelectedServices"
    /\ err = NoErr
    /\ Len(call.names) > 0
    => res = SelectedIn(before, Closure(before, call.names, call.policy),
                        SelectSeq(ServiceOrder, LAMBDA n : n \in Enabled(before)))

\* C20: ForEachService aborts on the first failure.  From the step in which
\* a visit call returns an error, or a required dependency is found missing,
\* the walk holds that error, makes no further visit call while the error is
\* returned through the invocations on the stack, whatever names they have
\* left, and ForEachService returns that error; when a requested name is
\* missing, ForEachService returns "no such service" and no visit call has
\* been made.
C20_Abort ==
    [][/\ pc = "walk" /\ pc' = "unwind"
          => /\ err' # NoErr
             /\ VisitFailed' => visits' = Append(visits, err'[2])
             /\ ~VisitFailed' => NoSuchService' /\ visits' = visits
       /\ pc = "unwind"
          => /\ err' = err
             /\ pc' \in {"unwind", "walked", "returned"}
             /\ pc' \in {"unwind", "walked"} => visits' = visits
             /\ pc' = "unwind" => Len(stack') < Len(stack)
       /\ pc = "idle" /\ pc' = "walked" /\ NameMissing'
          => NoSuchService' /\ visits' = <<>>]_vars

\* a visit call failed after another one, and ForEachService returned its
\* error with two services of the closure or more left unvisited
C20_Witness ==
    /\ pc = "walked"
    /\ VisitFailed
    /\ Len(visits) >= 2
    /\ visits[Len(visits)] = err[2]
    /\ Cardinality(Closure(recv, call.names, call.policy) \ Range(visits)) >= 2

\* C21 as stated: WithImagesResolved has no conflicting accesses to the
\* services map of the copy.  No two work items store under the same index
\* (an index the loop has yet to reach has no work item, so each index gets
\* one work item at most), and no work item is about to store into the map
\* while the dispatching loop is still ranging over it.
C21_AsStated ==
    pc = "images"
    => /\ img.todo \cap (DOMAIN img.run \cup DOMAIN img.wr) = {}
       /\ \A idx \in DOMAIN img.wr : ~img.ranging

====
